---- MODULE Spec2Model ----
(***************************************************************************)
(* scripts/python_scripts/list_iam_users.py: the IAM user report.          *)
(*                                                                         *)
(* main() pages through list_users, classifies every user with             *)
(* get_user_details (login profile, access keys, attached policies,        *)
(* groups, last-used dates), collects the records in all_users, and then   *)
(* prints a table and a total and writes an Excel file.                    *)
(*                                                                         *)
(* Text is a sequence of one-character strings, so that strip and join are *)
(* computed as Python computes them.  An optional value (None or a value)  *)
(* is the empty sequence or a one-element sequence.  Time is counted in    *)
(* ticks, TicksPerDay of them to a day.                                    *)
(***************************************************************************)
EXTENDS Integers, Sequences, FiniteSets, TLC

VARIABLES
    now,        \* the system clock, datetime.now(timezone.utc), in ticks
    iam,        \* the account behind the boto3 client: user name -> facts
    pages,      \* what paginator.paginate() yields: pages of users
    pageNo,     \* pages consumed so far by the outer loop of main
    userNo,     \* users of the current page consumed by the inner loop
    all_users,  \* main's all_users: the records collected so far
    calls,      \* history: the user and the failure of every get_user_details call
    reads,      \* history: the clock readings of the latest get_user_details
    stdout,     \* the lines printed so far
    xlsx,       \* the report file at output_path
    error,      \* the exception that ended the run, if any
    pc          \* main's position

vars == <<now, iam, pages, pageNo, userNo, all_users, calls, reads, stdout, xlsx, error, pc>>

----------------------------------------------------------------------------
(* Bounds of the model. *)

TicksPerDay == 2
MaxDrift == 1
MaxKeys == 2
MaxAttached == 2
MaxGroups == 2
MaxPages == 2
MaxPerPage == 2

(* The staleness threshold of the eligibility test, in days. *)
StaleDays == 90

----------------------------------------------------------------------------
(* Values. *)

None == <<>>
Some(x) == <<x>>

SeqsUpTo(S, n) == UNION {[1..k -> S] : k \in 0..n}

Slash == "/"
ServiceLit == <<"s", "e", "r", "v", "i", "c", "e">>
NoneLit == <<"N", "o", "n", "e">>
GroupPrefix == <<"G", "r", "o", "u", "p", ":">>
CommaSpace == <<",", " ">>

----------------------------------------------------------------------------
(* Python built-ins used by the script. *)

RECURSIVE lstrip(_, _)
lstrip(s, ch) ==
    IF s # <<>> /\ Head(s) = ch THEN lstrip(Tail(s), ch) ELSE s

RECURSIVE rstrip(_, _)
rstrip(s, ch) ==
    IF s # <<>> /\ s[Len(s)] = ch THEN rstrip(SubSeq(s, 1, Len(s) - 1), ch) ELSE s

strip_left_only(s, ch) == lstrip(s, ch)

strip(s, ch) == rstrip(lstrip(s, ch), ch)

RECURSIVE join(_, _)
join(sep, parts) ==
    IF parts = <<>> THEN <<>>
    ELSE IF Len(parts) = 1 THEN parts[1]
    ELSE parts[1] \o sep \o join(sep, Tail(parts))

RECURSIVE max(_)
max(ds) ==
    IF Len(ds) = 1 THEN ds[1]
    ELSE LET m == max(Tail(ds)) IN IF ds[1] >= m THEN ds[1] ELSE m

RECURSIVE min(_)
min(ds) ==
    IF Len(ds) = 1 THEN ds[1]
    ELSE LET m == min(Tail(ds)) IN IF ds[1] <= m THEN ds[1] ELSE m

----------------------------------------------------------------------------
(* days_since(date), with the clock reading the call gets. *)

days_until(date, clock) ==
    IF date = None THEN None ELSE Some((date[1] - clock) \div TicksPerDay)

days_since(date, clock) ==
    IF date = None THEN None ELSE Some((clock - date[1]) \div TicksPerDay)

----------------------------------------------------------------------------
(* The IAM calls of get_user_details and their failures. *)

Calls == {"get_login_profile", "list_access_keys", "list_attached_user_policies",
          "list_groups_for_user", "get_access_key_last_used"}

Exceptions == {"NoSuchEntityException", "ServiceFailureException"}

NoFault == [call |-> "none", exc |-> "none"]

Faults == [call : Calls, exc : Exceptions]

catches_any(call, exc) == call = "get_login_profile"

(* The try/except around get_login_profile. *)
catches(call, exc) == call = "get_login_profile" /\ exc = "NoSuchEntityException"

(* What iam.get_login_profile does: "ok", or the exception it raises. *)
get_login_profile(acct, fault) ==
    IF fault.call = "get_login_profile" THEN fault.exc
    ELSE IF acct.LoginProfile THEN "ok"
    ELSE "NoSuchEntityException"

(* The exception that leaves get_user_details, or NoFault.  A call that is
   never made (get_access_key_last_used of a user without keys) cannot fail. *)
raised(acct, fault) ==
    IF fault = NoFault THEN NoFault
    ELSE IF fault.call = "get_login_profile"
         THEN IF catches(fault.call, fault.exc) THEN NoFault ELSE fault
    ELSE IF fault.call = "get_access_key_last_used" /\ acct.AccessKeyMetadata = <<>>
         THEN NoFault
    ELSE fault

----------------------------------------------------------------------------
(* The steps of get_user_details. *)

user_type(user_path) ==
    IF strip(user_path, Slash) = ServiceLit THEN "Service" ELSE "Local"

console_access(acct, fault) ==
    IF get_login_profile(acct, fault) = "ok" THEN "Console" ELSE "None"

cli_access_always_cli(access, keys) ==
    IF keys # <<>> THEN "CLI" ELSE access

cli_access(access, keys) ==
    IF keys # <<>>
    THEN IF access = "Console" THEN "Both" ELSE "CLI"
    ELSE access

policies_groups_first(attached_policies, groups) ==
    [i \in 1..Len(groups) |-> GroupPrefix \o groups[i].GroupName]
    \o [i \in 1..Len(attached_policies) |-> attached_policies[i]]

policies_of(attached_policies, groups) ==
    [i \in 1..Len(attached_policies) |-> attached_policies[i]]
    \o [i \in 1..Len(groups) |-> GroupPrefix \o groups[i].GroupName]

permissions_always_joined(policies) == join(CommaSpace, policies)

permissions(policies) ==
    IF policies # <<>> THEN join(CommaSpace, policies) ELSE NoneLit

RECURSIVE key_used_dates_of(_)
key_used_dates_of(keys) ==
    IF keys = <<>> THEN <<>>
    ELSE (IF keys[1].LastUsedDate # None THEN <<keys[1].LastUsedDate[1]>> ELSE <<>>)
         \o key_used_dates_of(Tail(keys))

all_dates_of(login_date, key_used_dates) ==
    (IF login_date # None THEN <<login_date[1]>> ELSE <<>>) \o key_used_dates

least_recent(all_dates) == min(all_dates)

most_recent(all_dates) == max(all_dates)

(* clk[j] is what the j-th call of datetime.now in this get_user_details
   returns; used counts the calls made so far. *)
last_login_days(all_dates, clk) ==
    IF all_dates # <<>> THEN days_since(Some(most_recent(all_dates)), clk[1]) ELSE None

stale_strict(days) == days[1] > StaleDays

stale(days) == days[1] >= StaleDays

(* all(days_since(d) >= 90 for d in key_used_dates): stops at the first
   date that fails. *)
RECURSIVE all_stale(_, _, _)
all_stale(dates, clk, used) ==
    IF dates = <<>> THEN TRUE
    ELSE IF stale(days_since(Some(dates[1]), clk[used + 1]))
         THEN all_stale(Tail(dates), clk, used + 1)
         ELSE FALSE

eligible(login_date, key_used_dates, clk) ==
    LET used0 == IF all_dates_of(login_date, key_used_dates) # <<>> THEN 1 ELSE 0
        used1 == used0 + (IF login_date # None THEN 1 ELSE 0)
    IN  /\ (login_date = None \/ stale(days_since(login_date, clk[used0 + 1])))
        /\ (key_used_dates = <<>> \/ all_stale(key_used_dates, clk, used1))

(* How many times get_user_details calls days_since, and so reads the clock:
   once for LastLoginDays if there is any date, once for the password date
   if there is one, and, if that test passed, once for each key date up to
   the first that fails. *)
RECURSIVE tested(_, _, _)
tested(dates, clk, used) ==
    IF dates = <<>> THEN used
    ELSE IF stale(days_since(Some(dates[1]), clk[used + 1]))
         THEN tested(Tail(dates), clk, used + 1)
         ELSE used + 1

clock_reads(user, acct, clk) ==
    LET login_date == user.PasswordLastUsed
        key_used_dates == key_used_dates_of(acct.AccessKeyMetadata)
        used0 == IF all_dates_of(login_date, key_used_dates) # <<>> THEN 1 ELSE 0
        used1 == used0 + (IF login_date # None THEN 1 ELSE 0)
    IN  IF login_date = None \/ stale(days_since(login_date, clk[used0 + 1]))
        THEN tested(key_used_dates, clk, used1)
        ELSE used1

get_user_details(user, acct, fault, clk) ==
    LET keys == acct.AccessKeyMetadata
        policies == policies_of(acct.AttachedPolicies, acct.Groups)
        login_date == user.PasswordLastUsed
        key_used_dates == key_used_dates_of(keys)
        all_dates == all_dates_of(login_date, key_used_dates)
    IN  [User |-> user.UserName,
         UserType |-> user_type(user.Path),
         TypeOfAccess |-> cli_access(console_access(acct, fault), keys),
         Permissions |-> permissions(policies),
         LastLoginDays |-> last_login_days(all_dates, clk),
         EligibleToRemove |-> IF eligible(login_date, key_used_dates, clk)
                              THEN "Yes" ELSE "No"]

----------------------------------------------------------------------------
(* The inputs: the clock, the listing and the account. *)

MaxCalls == 2 + MaxKeys

(* The clock readings one get_user_details may see from time t on: the clock
   does not go back, and advances by at most MaxDrift ticks meanwhile.  clk
   has a reading for every call that could be made; the readings past the
   last call made repeat its reading. *)
ClockReads(t) ==
    {clk \in [1..MaxCalls -> t..(t + MaxDrift)] :
        \A j \in 1..(MaxCalls - 1) : clk[j] <= clk[j + 1]}

(* A timestamp that lies the given days and ticks before the clock's start. *)
Stamp(days, ticks) == 0 - (days * TicksPerDay + ticks)

Stamps == {Stamp(0, 0), Stamp(10, 0), Stamp(89, TicksPerDay - 1),
           Stamp(90, 0), Stamp(91, 0), Stamp(120, 0)}

OptStamps == {None} \cup {Some(t) : t \in Stamps}

Names == {"u1", "u2", "u3"}

PathRoot == <<"/">>
PathService == <<"/">> \o ServiceLit \o <<"/">>
PathServiceTeam == <<"/">> \o ServiceLit \o <<"-", "t", "e", "a", "m", "/">>
PathUpperService == <<"/", "S", "e", "r", "v", "i", "c", "e", "/">>
PathNested == <<"/", "a", "/">> \o ServiceLit \o <<"/">>
PathDoubled == <<"/", "/">> \o ServiceLit \o <<"/", "/">>

Paths == {PathRoot, PathService, PathServiceTeam, PathUpperService,
          PathNested, PathDoubled}

PolicyNames == {<<"A">>, NoneLit}
InlineNames == {<<"I">>}
GroupNames == {<<"G">>, <<"H">>}
GroupPolicyNames == {<<"P">>}

GroupRecords ==
    [GroupName : GroupNames, AttachedPolicies : SeqsUpTo(GroupPolicyNames, 1)]

GroupLists ==
    {gs \in SeqsUpTo(GroupRecords, MaxGroups) :
        \A i, j \in 1..Len(gs) : i # j => gs[i].GroupName # gs[j].GroupName}

KeysWith(dates) ==
    [i \in 1..Len(dates) |-> [AccessKeyId |-> i, LastUsedDate |-> dates[i]]]

User(name, path, used) ==
    [UserName |-> name, Path |-> path, PasswordLastUsed |-> used]

Account(profile, keys, attached, inline, groups) ==
    [LoginProfile |-> profile, AccessKeyMetadata |-> keys,
     AttachedPolicies |-> attached, InlinePolicies |-> inline, Groups |-> groups]

(* A fixed account of three users, for the runs over several pages. *)
Directory ==
    [n \in Names |->
        CASE n = "u1" -> Account(FALSE, KeysWith(<<Some(Stamp(120, 0))>>),
                                 <<<<"A">>>>, <<>>, <<>>)
          [] n = "u2" -> Account(TRUE, <<>>, <<>>, <<<<"I">>>>,
                                 <<[GroupName |-> <<"G">>,
                                    AttachedPolicies |-> <<<<"P">>>>]>>)
          [] OTHER -> Account(FALSE, <<>>, <<>>, <<>>, <<>>)]

DirectoryUser(n) ==
    CASE n = "u1" -> User(n, PathService, None)
      [] n = "u2" -> User(n, PathRoot, Some(Stamp(10, 0)))
      [] OTHER -> User(n, PathRoot, None)

(* The listings: at least one page, no user listed twice. *)
Flatten(pp) ==
    LET RECURSIVE flat(_)
        flat(k) == IF k = 0 THEN <<>> ELSE flat(k - 1) \o pp[k]
    IN  flat(Len(pp))

Listings ==
    {[k \in 1..Len(pp) |-> [i \in 1..Len(pp[k]) |-> DirectoryUser(pp[k][i])]] :
        pp \in {qq \in SeqsUpTo(SeqsUpTo(Names, MaxPerPage), MaxPages) :
                  /\ Len(qq) >= 1
                  /\ LET f == Flatten(qq)
                     IN  \A i, j \in 1..Len(f) : i # j => f[i] # f[j]}}

NoFile == [exists |-> FALSE, rows |-> <<>>, formatted |-> FALSE]

Line(kind, rows, n) == [kind |-> kind, rows |-> rows, n |-> n]

InitRun ==
    /\ now = 0
    /\ pageNo = 0
    /\ userNo = 0
    /\ all_users = <<>>
    /\ calls = <<>>
    /\ reads = [j \in 1..MaxCalls |-> 0]
    /\ stdout = <<>>
    /\ xlsx = NoFile
    /\ error = NoFault
    /\ pc = "start"

(* A run over the fixed account, with any listing. *)
Init ==
    /\ InitRun
    /\ iam = Directory
    /\ pages \in Listings

(* One user, with the inputs of get_user_details drawn widely: the dates, or
   the permissions, or the path. *)
RecencyCases ==
    {<<User("u1", PathRoot, used),
       Account(TRUE, KeysWith(dates), <<>>, <<>>, <<>>)>> :
        used \in OptStamps, dates \in SeqsUpTo(OptStamps, MaxKeys)}

PermissionCases ==
    {<<User("u1", PathRoot, None),
       Account(profile, keys, attached, inline, groups)>> :
        profile \in BOOLEAN, keys \in {<<>>, KeysWith(<<None>>)},
        attached \in SeqsUpTo(PolicyNames, MaxAttached),
        inline \in SeqsUpTo(InlineNames, 1), groups \in GroupLists}

PathCases ==
    {<<User("u1", path, used),
       Account(profile, keys, <<<<"A">>>>, <<>>, <<>>)>> :
        path \in Paths, used \in {None, Some(Stamp(10, 0))},
        profile \in BOOLEAN, keys \in {<<>>, KeysWith(<<Some(Stamp(91, 0))>>)}}

InitClassify ==
    /\ InitRun
    /\ \E c \in RecencyCases \cup PermissionCases \cup PathCases :
          /\ pages = <<<<c[1]>>>>
          /\ iam = [n \in {"u1"} |-> c[2]]

----------------------------------------------------------------------------
(* main. *)

(* print("Fetching IAM users... Please wait."), and the paginator. *)
Start ==
    /\ pc = "start"
    /\ stdout' = Append(stdout, Line("banner", <<>>, 0))
    /\ pc' = "paginate"
    /\ UNCHANGED <<now, iam, pages, pageNo, userNo, all_users, calls, reads, xlsx, error>>

exhausted_after_first_page == pageNo >= 1

(* for page in paginator.paginate(): no page is left. *)
exhausted == pageNo = Len(pages)

NextPage ==
    /\ pc = "paginate"
    /\ ~exhausted
    /\ pageNo' = pageNo + 1
    /\ userNo' = 0
    /\ pc' = IF pages[pageNo + 1] = <<>> THEN "paginate" ELSE "page"
    /\ UNCHANGED <<now, iam, pages, all_users, calls, reads, stdout, xlsx, error>>

(* list_users fails for a page. *)
NextPageFails ==
    /\ pc = "paginate"
    /\ ~exhausted
    /\ \E exc \in Exceptions : error' = [call |-> "list_users", exc |-> exc]
    /\ pc' = "aborted"
    /\ UNCHANGED <<now, iam, pages, pageNo, userNo, all_users, calls, reads, stdout, xlsx>>

made(acct, call) ==
    call = "get_access_key_last_used" => acct.AccessKeyMetadata # <<>>

(* all_users.append(get_user_details(user)) *)
ProcessUser ==
    /\ pc = "page"
    /\ LET user == pages[pageNo][userNo + 1]
           acct == iam[user.UserName]
       IN  \E fault \in {NoFault} \cup {f \in Faults : made(acct, f.call)},
              clk \in ClockReads(now) :
              /\ raised(acct, fault) = NoFault
              /\ \A j \in 1..MaxCalls :
                     j > clock_reads(user, acct, clk) =>
                        clk[j] = IF clock_reads(user, acct, clk) = 0 THEN now
                                 ELSE clk[clock_reads(user, acct, clk)]
              /\ all_users' = Append(all_users, get_user_details(user, acct, fault, clk))
              /\ calls' = Append(calls, [user |-> user, fault |-> fault])
              /\ reads' = clk
              /\ now' = clk[MaxCalls]
    /\ userNo' = userNo + 1
    /\ pc' = IF userNo + 1 = Len(pages[pageNo]) THEN "paginate" ELSE "page"
    /\ UNCHANGED <<iam, pages, pageNo, stdout, xlsx, error>>

(* get_user_details raises: nothing catches it, in it or in main. *)
ProcessUserFails ==
    /\ pc = "page"
    /\ LET user == pages[pageNo][userNo + 1]
           acct == iam[user.UserName]
       IN  \E fault \in {f \in Faults : made(acct, f.call)} :
              /\ raised(acct, fault) # NoFault
              /\ error' = raised(acct, fault)
              /\ calls' = Append(calls, [user |-> user, fault |-> fault])
    /\ pc' = "aborted"
    /\ UNCHANGED <<now, iam, pages, pageNo, userNo, all_users, reads, stdout, xlsx>>

headers == <<"User", "UserType", "TypeOfAccess", "Permissions",
             "LastLoginDays", "EligibleToRemove">>

rows_of(users) ==
    [i \in 1..Len(users) |->
        <<users[i].User, users[i].UserType, users[i].TypeOfAccess,
          users[i].Permissions, users[i].LastLoginDays, users[i].EligibleToRemove>>]

(* print(tabulate(rows, ...)); print(f"Total users: {len(all_users)}") *)
PrintReport ==
    /\ pc = "paginate"
    /\ exhausted
    /\ stdout' = stdout \o <<Line("table", rows_of(all_users), 0),
                             Line("total", <<>>, Len(all_users))>>
    /\ pc' = "excel"
    /\ UNCHANGED <<now, iam, pages, pageNo, userNo, all_users, calls, reads, xlsx, error>>

(* df.to_excel(output_path), format_excel(output_path), and the last print. *)
SaveExcel ==
    /\ pc = "excel"
    /\ xlsx' = [exists |-> TRUE, rows |-> rows_of(all_users), formatted |-> TRUE]
    /\ stdout' = Append(stdout, Line("saved", <<>>, 0))
    /\ pc' = "done"
    /\ UNCHANGED <<now, iam, pages, pageNo, userNo, all_users, calls, reads, error>>

(* to_excel fails and leaves no file, or format_excel fails on the file
   to_excel wrote. *)
SaveExcelFails ==
    /\ pc = "excel"
    /\ \E step \in {"to_excel", "format_excel"} :
          /\ error' = [call |-> step, exc |-> "OSError"]
          /\ xlsx' = IF step = "to_excel" THEN xlsx
                     ELSE [exists |-> TRUE, rows |-> rows_of(all_users),
                           formatted |-> FALSE]
    /\ pc' = "aborted"
    /\ UNCHANGED <<now, iam, pages, pageNo, userNo, all_users, calls, reads, stdout>>

Next ==
    \/ Start
    \/ NextPage
    \/ NextPageFails
    \/ ProcessUser
    \/ ProcessUserFails
    \/ PrintReport
    \/ SaveExcel
    \/ SaveExcelFails

Spec == Init /\ [][Next]_vars

SpecClassify == InitClassify /\ [][Next]_vars

----------------------------------------------------------------------------
(* What the properties below read: record i of all_users and the inputs of
   the get_user_details call that made it.  The calls are in the order of
   the records; a call that raised is the last one and has no record.  The
   clock readings are kept for the latest call only, so the properties about
   them speak of the record just made: every record is that once. *)

UserOf(i) == calls[i].user
AcctOf(i) == iam[calls[i].user.UserName]

JustMade(i) == i = Len(all_users) /\ i = Len(calls) /\ i >= 1

UsedKeys(i) ==
    {k \in 1..Len(AcctOf(i).AccessKeyMetadata) :
        AcctOf(i).AccessKeyMetadata[k].LastUsedDate # None}

KeyDate(i, k) == AcctOf(i).AccessKeyMetadata[k].LastUsedDate[1]

(* The timestamps of activity the account holds for the user of record i. *)
Candidates(i) ==
    (IF UserOf(i).PasswordLastUsed # None
     THEN {UserOf(i).PasswordLastUsed[1]} ELSE {})
    \cup {KeyDate(i, k) : k \in UsedKeys(i)}

(* The clock readings of the eligibility test: the first reading goes to
   LastLoginDays when there is any date, the next to the password date when
   there is one, and the following to the used keys in their order. *)
PasswordRead(i) == reads[(IF Candidates(i) # {} THEN 1 ELSE 0) + 1]

KeyRead(i, k) ==
    reads[(IF Candidates(i) # {} THEN 1 ELSE 0)
               + (IF UserOf(i).PasswordLastUsed # None THEN 1 ELSE 0)
               + Cardinality({j \in UsedKeys(i) : j <= k})]

(* t lies at least StaleDays whole days before the reading. *)
Old(t, reading) == reading - t >= StaleDays * TicksPerDay

\* C1: EligibleToRemove is 'Yes' exactly when the password was never used or
\* was last used at least 90 days before the clock reading of its test, and
\* every key that was ever used was last used at least 90 days before the
\* reading of its test; a key never used and the absence of keys do not
\* block it.  Otherwise it is 'No'.
C1_Eligibility ==
    \A i \in {j \in 1..Len(all_users) : JustMade(j)} :
        all_users[i].EligibleToRemove =
            IF /\ \/ UserOf(i).PasswordLastUsed = None
                  \/ Old(UserOf(i).PasswordLastUsed[1], PasswordRead(i))
               /\ \A k \in UsedKeys(i) : Old(KeyDate(i, k), KeyRead(i, k))
            THEN "Yes" ELSE "No"

(* Password used 91 days ago, the sole key 120 days ago: eligible. *)
C1_Witness ==
    /\ Len(all_users) = 1
    /\ UserOf(1).PasswordLastUsed = Some(Stamp(91, 0))
    /\ Len(AcctOf(1).AccessKeyMetadata) = 1
    /\ AcctOf(1).AccessKeyMetadata[1].LastUsedDate = Some(Stamp(120, 0))
    /\ all_users[1].EligibleToRemove = "Yes"

(* A login profile exists: get_login_profile returned. *)
HasProfile(i) == AcctOf(i).LoginProfile /\ calls[i].fault.call # "get_login_profile"

\* C2: TypeOfAccess is decided by whether a login profile exists and whether
\* the list of access keys is non-empty, and by nothing else: 'Console',
\* 'CLI', 'Both' or 'None'.
C2_TypeOfAccess ==
    \A i \in 1..Len(all_users) :
        all_users[i].TypeOfAccess =
            CASE HasProfile(i) /\ AcctOf(i).AccessKeyMetadata = <<>> -> "Console"
              [] ~HasProfile(i) /\ AcctOf(i).AccessKeyMetadata # <<>> -> "CLI"
              [] HasProfile(i) /\ AcctOf(i).AccessKeyMetadata # <<>> -> "Both"
              [] OTHER -> "None"

C2_Witness ==
    /\ Len(all_users) = 1
    /\ AcctOf(1).LoginProfile
    /\ Len(AcctOf(1).AccessKeyMetadata) = 1
    /\ AcctOf(1).AttachedPolicies # <<>>
    /\ all_users[1].TypeOfAccess = "Both"

\* C3: LastLoginDays is None when neither the password nor any key was ever
\* used; otherwise it is the whole number of days from the most recent of
\* those dates to the clock reading, so that activity within the current day
\* gives 0 and not None.
C3_LastLoginDays ==
    \A i \in {j \in 1..Len(all_users) : JustMade(j)} :
        IF Candidates(i) = {}
        THEN all_users[i].LastLoginDays = None
        ELSE \E m \in Candidates(i) :
                /\ \A c \in Candidates(i) : c <= m
                /\ all_users[i].LastLoginDays # None
                /\ LET d == all_users[i].LastLoginDays[1]
                   IN  /\ d * TicksPerDay <= reads[1] - m
                       /\ reads[1] - m < (d + 1) * TicksPerDay

(* The password was used today and a key 120 days ago: 0 days. *)
C3_Witness ==
    /\ Len(all_users) = 1
    /\ UserOf(1).PasswordLastUsed = Some(Stamp(0, 0))
    /\ UsedKeys(1) # {}
    /\ KeyDate(1, 1) = Stamp(120, 0)
    /\ all_users[1].LastLoginDays = Some(0)

\* C10: in every record EligibleToRemove is 'Yes' exactly when LastLoginDays
\* is None or at least 90, also when the clock advances between the calls of
\* days_since.
C10_RecencyConsistent ==
    \A i \in 1..Len(all_users) :
        (all_users[i].EligibleToRemove = "Yes")
        <=> (\/ all_users[i].LastLoginDays = None
             \/ all_users[i].LastLoginDays[1] >= StaleDays)

(* The clock moved a day on between the reading for LastLoginDays and the
   reading of the eligibility test: 89 days, and yet eligible. *)
C10_Witness ==
    /\ Len(all_users) = 1
    /\ all_users[1].LastLoginDays = Some(StaleDays - 1)
    /\ all_users[1].EligibleToRemove = "Yes"

(* The lines of a kind printed so far. *)
Printed(kind) == {j \in 1..Len(stdout) : stdout[j].kind = kind}

(* The one failure get_user_details absorbs. *)
NoProfileSignal(fault) ==
    fault.call = "get_login_profile" /\ fault.exc = "NoSuchEntityException"

\* C4: a lookup of get_user_details that fails with anything but the
\* NoSuchEntity signal of the login-profile probe ends the run: the user gets
\* no record, no later user is processed, and neither the table, the total
\* nor the Excel file is produced.  The NoSuchEntity signal of the probe is
\* absorbed: the user gets a record without console access.
C4_LookupFailureAborts ==
    \A i \in 1..Len(calls) :
        LET fault == calls[i].fault
        IN  /\ (fault # NoFault /\ ~NoProfileSignal(fault)) =>
                  /\ i = Len(calls)
                  /\ Len(all_users) = i - 1
                  /\ pc = "aborted"
                  /\ error = fault
                  /\ Printed("table") = {}
                  /\ Printed("total") = {}
                  /\ Printed("saved") = {}
                  /\ ~xlsx.exists
            /\ NoProfileSignal(fault) =>
                  /\ i <= Len(all_users)
                  /\ all_users[i].User = calls[i].user.UserName
                  /\ all_users[i].TypeOfAccess \in {"None", "CLI"}

(* The second user's lookup failed after the first user got a record. *)
C4_Witness ==
    /\ pc = "aborted"
    /\ Len(calls) = 2
    /\ Len(all_users) = 1
    /\ calls[2].fault.call = "list_groups_for_user"
    /\ NoProfileSignal(calls[1].fault)

(* The attached policies, then the groups, as get_user_details lists them. *)
ListedFacts(i) ==
    [j \in 1..(Len(AcctOf(i).AttachedPolicies) + Len(AcctOf(i).Groups)) |->
        IF j <= Len(AcctOf(i).AttachedPolicies)
        THEN AcctOf(i).AttachedPolicies[j]
        ELSE GroupPrefix \o AcctOf(i).Groups[j - Len(AcctOf(i).AttachedPolicies)].GroupName]

(* Each group's membership fact, followed by the policies attached to it. *)
RECURSIVE GroupFacts(_)
GroupFacts(groups) ==
    IF groups = <<>> THEN <<>>
    ELSE <<GroupPrefix \o groups[1].GroupName>> \o groups[1].AttachedPolicies
         \o GroupFacts(Tail(groups))

(* The facts of all four kinds, in the order the specification gives. *)
AllFacts(i) ==
    AcctOf(i).AttachedPolicies \o AcctOf(i).InlinePolicies
    \o GroupFacts(AcctOf(i).Groups)

(* The first k facts, separated by ", ". *)
RECURSIVE Listing(_, _)
Listing(facts, k) ==
    IF k = 0 THEN <<>>
    ELSE IF k = 1 THEN facts[1]
    ELSE Listing(facts, k - 1) \o CommaSpace \o facts[k]

Rendered(facts) == IF facts = <<>> THEN NoneLit ELSE Listing(facts, Len(facts))

Slashes(n) == [j \in 1..n |-> Slash]

\* C7: UserType is 'Service' exactly when the path is the text 'service'
\* between any number of leading and of trailing '/', in that case only;
\* otherwise it is 'Local', and never the placeholder 'Unknown'.
C7_UserType ==
    \A i \in 1..Len(all_users) :
        all_users[i].UserType =
            IF \E a, b \in 0..Len(UserOf(i).Path) :
                  UserOf(i).Path = Slashes(a) \o ServiceLit \o Slashes(b)
            THEN "Service" ELSE "Local"

C7_Witness ==
    /\ Len(all_users) = 1
    /\ UserOf(1).Path = PathService
    /\ all_users[1].UserType = "Service"

\* C8: the table, the total and the Excel file appear only when every page
\* has been consumed and every listed user classified; the records follow
\* the listing, one per user and in its order, and the total printed is the
\* number of listed users.
C8_RenderAfterEnumeration ==
    LET listed == Flatten(pages)
    IN  /\ Len(all_users) <= Len(listed)
        /\ \A i \in 1..Len(all_users) : all_users[i].User = listed[i].UserName
        /\ (Printed("table") # {} \/ Printed("total") # {} \/ xlsx.exists) =>
              /\ pageNo = Len(pages)
              /\ Len(all_users) = Len(listed)
        /\ \A j \in Printed("table") : stdout[j].rows = rows_of(all_users)
        /\ \A j \in Printed("total") : stdout[j].n = Len(listed)
        /\ xlsx.exists => Len(xlsx.rows) = Len(listed)

(* A report of three users that came on two pages. *)
C8_Witness ==
    /\ pc = "done"
    /\ Len(pages) = 2
    /\ Len(pages[1]) = 2
    /\ Len(pages[2]) = 1
    /\ Printed("total") # {}
    /\ xlsx.exists

(* days_since at the dates of the model, at the clock's own time and at a
   date one tick ahead of the clock. *)
C9_Floor ==
    /\ days_since(None, now) = None
    /\ days_since(Some(now), now) = Some(0)
    /\ \A t \in Stamps \cup {now, now + 1} :
          LET d == days_since(Some(t), now)
          IN  /\ d # None
              /\ d[1] * TicksPerDay <= now - t
              /\ now - t < (d[1] + 1) * TicksPerDay

C9_Monotone ==
    \A t \in Stamps :
        now' >= now => days_since(Some(t), now')[1] >= days_since(Some(t), now)[1]

\* C9: days_since of a date is the whole number of days from it to the
\* clock, rounded down, and None for no date; it never decreases while the
\* clock moves forward, and days_since of the clock's own time is 0.
C9_DaysSince == [](C9_Floor) /\ [][C9_Monotone]_vars

(* The clock moved, and took a date from 89 to 90 days. *)
C9_Witness ==
    /\ now > 0
    /\ Len(all_users) = 1
    /\ UserOf(1).PasswordLastUsed = Some(Stamp(StaleDays - 1, TicksPerDay - 1))
    /\ days_since(UserOf(1).PasswordLastUsed, 0) = Some(StaleDays - 1)
    /\ all_users[1].LastLoginDays = Some(StaleDays)

====
